---- MODULE Spec2Model ----
(***************************************************************************)
(* Source instrumentation scripts of the repository (add_*_telemetry*.py). *)
(*                                                                         *)
(* The target file (server.rs) is modelled as a sequence of lexemes.  A    *)
(* lexeme is the piece of text one of the scripts' patterns looks at: a    *)
(* function signature up to and including its opening brace, a block       *)
(* opener, a closing brace, a success expression, a span-creation          *)
(* statement, a completion pair, filler statements.  A lexeme is made of   *)
(* whole lines: its indentation, its text and its line end.  Every lexeme  *)
(* has a width in characters and a height in lines, so that the scripts'   *)
(* fixed look-ahead windows (200 / 100 / 500 characters, 5 lines) are      *)
(* computed as the code computes them.  An offset of the code is modelled  *)
(* as the number of lexemes before it; the offset of a success expression, *)
(* which the code puts at the start of the white space before it, is the   *)
(* start of its lexeme.                                                    *)
(***************************************************************************)
EXTENDS Integers, Sequences, FiniteSets, TLC

VARIABLES script, table, file, original, content, prev, pc, idx, report,
          events, run, file1, report1, reads, writes,
          ws_connected, consecutive_failures, connection_drops, total_pings,
          successful_pings, error_history, wait_time, mon_pc

\* what the scripts read and write
scripts == <<script, table, file, original, content, prev, pc, idx, report,
             events, run, file1, report1, reads, writes>>

\* the fields of BridgeHealthMonitor that monitor_websocket writes, its local
\* wait_time and its position
monitor == <<ws_connected, consecutive_failures, connection_drops,
             total_pings, successful_pings, error_history, wait_time, mon_pc>>

vars == <<script, table, file, original, content, prev, pc, idx, report,
          events, run, file1, report1, reads, writes,
          ws_connected, consecutive_failures, connection_drops, total_pings,
          successful_pings, error_history, wait_time, mon_pc>>

----------------------------------------------------------------------------
(* Lexemes *)

Names == {"zoom_in", "delay"}

Tok(k) == [t |-> k, n |-> ""]
Sig(n) == [t |-> "sig", n |-> n]
\* a signature whose parameter list holds a parenthesised pattern, as in
\* (&self, Parameters(args): Parameters<ZoomArgs>)
Sigp(n) == [t |-> "sigp", n |-> n]
IsSig(tok) == tok.t \in {"sig", "sigp"}
Span(n) == [t |-> "span", n |-> n]
Attr(n) == [t |-> "attr", n |-> n]
X == Tok("x")
LB == Tok("lb")
RB == Tok("rb")
OK == Tok("ok")
\* a success expression whose argument holds a call:
\* Ok(CallToolResult::success(vec![Content::json(r)?]))
Okn == Tok("okn")
End == Tok("end")
Cmt == Tok("cmt")
\* match find_and_execute_with_retry_with_fallback(&args).await {
Fae == Tok("fae")
\* the match arms  Ok(((result, element), selector)) => {  and
\* Ok(((result, element))) => {
Arm == Tok("arm")
Arm2 == Tok("arm2")
\* let operation_start = std::time::Instant::now();
Decl == Tok("decl")
\* the three statements of timing_track
Track == Tok("track")
\* the line break that a block of emitted statements lacks at its end: the
\* lexeme after it continues the line of the block's last statement
Join == Tok("join")

\* len() of a function name and of an attribute's field name
NameLen(n) ==
  CASE n = "delay" -> 5
    [] n = "zoom_in" -> 7
    [] n \in {"zoom_out", "set_zoom"} -> 8
    [] n = "set_toggled" -> 11
    [] n = "set_selected" -> 12
    [] n \in {"navigate_browser", "wait_for_element"} -> 16
    [] n = "highlight_element" -> 17
    [] OTHER -> 7

FieldLen(n) ==
  CASE n = "selector" -> 8
    [] n = "steps" -> 5
    [] n = "timeout_ms" -> 10
    [] n = "retries" -> 7
    [] n = "duration_ms" -> 11
    [] n = "toggled" -> 7
    [] n \in {"selected", "delay_ms", "wait_for"} -> 8
    [] n \in {"state", "level"} -> 5
    [] n \in {"percentage", "zoom_level"} -> 10
    [] n = "use_protocol" -> 12
    [] OTHER -> 8

\* the kinds of lexeme that hold an attribute statement: a one-line call
\* span.set_attribute("f", args.f.clone()) / (... .to_string()), and the
\* three-line block "if let Some(..) = args.f { span.set_attribute(..); }";
\* "debug" is the call with format!("{:?}", args.f), "unwrap" the call with
\* args.f.unwrap_or(false).to_string()
StmtKinds == {"clone", "tostr", "iflet", "debug", "unwrap"}

\* len() of the three-line block of a field
IfLetWidth(n) ==
  CASE n = "steps" -> 112
    [] n = "timeout_ms" -> 126
    [] n = "retries" -> 131
    [] n = "duration_ms" -> 130
    [] n = "wait_for" -> 124
    [] OTHER -> 126

\* len() of the text of a lexeme, in characters
Width(tok) ==
  CASE tok.t = "sig" -> 80
    [] tok.t = "span" -> 48 + NameLen(tok.n)
    [] tok.t = "attr" -> IF tok.n = "delay" THEN 110 ELSE 357
    [] tok.t = "x" -> 120
    [] tok.t = "lb" -> 15
    [] tok.t = "rb" -> 6
    [] tok.t = "ok" -> 40
    [] tok.t = "okn" -> 61
    [] tok.t = "fae" -> 71
    [] tok.t = "arm" -> 51
    [] tok.t = "arm2" -> 41
    [] tok.t = "decl" -> 57
    [] tok.t = "track" -> 251
    [] tok.t = "join" -> 0
    [] tok.t = "end" -> 58
    [] tok.t = "cmt" -> 32
    [] tok.t = "ws" -> 9
    [] tok.t \in {"cmt2", "cmt3"} -> 51
    [] tok.t = "clone" -> 47 + 2 * FieldLen(tok.n)
    [] tok.t = "tostr" -> 51 + 2 * FieldLen(tok.n)
    [] tok.t = "iflet" -> IfLetWidth(tok.n)
    [] tok.t = "debug" -> 56 + 2 * FieldLen(tok.n)
    [] tok.t = "unwrap" -> 68 + 2 * FieldLen(tok.n)
    [] tok.t = "note" -> 58
    [] tok.t = "sigp" -> 110

\* number of lines of a lexeme (readlines)
Lines(tok) ==
  CASE tok.t = "x" -> 3
    [] tok.t = "end" -> 3
    [] tok.t = "attr" -> IF tok.n = "delay" THEN 3 ELSE 9
    [] tok.t = "iflet" -> 3
    [] tok.t = "track" -> 3
    [] tok.t = "join" -> 0
    [] tok.t = "cmt2" -> 2
    [] tok.t = "cmt3" -> 3
    [] OTHER -> 1

\* count('{') - count('}') of a lexeme
Delta(tok) ==
  CASE tok.t \in {"sig", "sigp", "lb", "fae", "arm", "arm2"} -> 1
    [] tok.t = "rb" -> -1
    [] OTHER -> 0

\* offset of "StepSpan::new" inside a span-creation statement, and its length
SpanMarkerOff == 23
SpanMarkerLen == 13
\* distance from the start of "span.end()" to the end of the completion pair
EndMarkerTail == 12

----------------------------------------------------------------------------
(* Sequence helpers *)

Max(S) == CHOOSE x \in S : \A y \in S : y <= x
Min(S) == CHOOSE x \in S : \A y \in S : x <= y

\* content[:b] + ins + content[b:]
Insert(c, b, ins) == SubSeq(c, 1, b) \o ins \o SubSeq(c, b + 1, Len(c))

\* content[:b] + ins + content[b:] for text that starts with a line break and
\* is put in front of the white space before lexeme b + 1: when that lexeme
\* continues the line of an emitted block, the text ends that line
InsertLine(c, b, ins) ==
  IF b >= 1 /\ c[b] = Join
  THEN SubSeq(c, 1, b - 1) \o ins \o SubSeq(c, b + 1, Len(c))
  ELSE Insert(c, b, ins)

RECURSIVE Chars(_, _, _)
\* len(content[i..j]) in characters, lexemes i..j inclusive
Chars(c, i, j) == IF i > j THEN 0 ELSE Width(c[i]) + Chars(c, i + 1, j)

RECURSIVE LineCount(_, _, _)
LineCount(c, i, j) == IF i > j THEN 0 ELSE Lines(c[i]) + LineCount(c, i + 1, j)

Count(c, k) == Cardinality({i \in 1..Len(c) : c[i].t = k})

\* a guard that never finds the marker
SpanMarkerNeverSeen(c, b, w) == FALSE

\* "StepSpan::new" in content[b:b+w]
HasSpanMarker(c, b, w) ==
  \E j \in (b + 1)..Len(c) :
     /\ c[j].t = "span"
     /\ Chars(c, b + 1, j - 1) + SpanMarkerOff + SpanMarkerLen <= w

\* "span.end()" in content[b-w:b]
HasEndMarkerBefore(c, b, w) ==
  \E j \in 1..b :
     /\ c[j].t = "end"
     /\ Chars(c, j + 1, b) + EndMarkerTail <= w

----------------------------------------------------------------------------
(* Shared stages of the regex-based scripts *)

\* the parentheses of a signature's parameter list, in text order, from the
\* one that opens the list to the one that closes it
Params(tok) ==
  IF tok.t = "sigp" THEN <<"(", "(", ")", ")">> ELSE <<"(", ")">>

\* \([^)]*\) followed by \s*->: the first ")" after the opening parenthesis
\* has to be the one that closes the list
ParamListMatches(tok) ==
  Min({k \in 1..Len(Params(tok)) : Params(tok)[k] = ")"}) = Len(Params(tok))

\* every signature of func_name, whatever its parameter list holds
AnySignature(c, func_name) ==
  {i \in 1..Len(c) : IsSig(c[i]) /\ c[i].n = func_name}

\* a locator that balances the parentheses of the parameter list
MatchesBalanced(c, func_name) ==
  {i \in 1..Len(c) : IsSig(c[i]) /\ c[i].n = func_name}

\* list(re.finditer(pattern, content)): the signatures of func_name; a match
\* ends right after the signature's opening brace
Matches(c, func_name) ==
  {i \in AnySignature(c, func_name) : ParamListMatches(c[i])}

\* the end of a match whose pattern ends in \s*\n, for the statement or
\* signature at lexeme i: the last of the whitespace-only lines that follow it
MatchEnd(c, i) ==
  Max({k \in i..Len(c) : \A j \in (i + 1)..k : c[j] = [t |-> "ws", n |-> ""]})

RECURSIVE BraceScan(_, _, _)
\* the while loop that tracks braces from pos with brace_count = bc > 0:
\* the index of the closing brace that brings the count to 0, -1 if none
BraceScan(c, pos, bc) ==
  IF pos > Len(c) THEN [end |-> -1, depth |-> bc]
  ELSE LET bc2 == bc + Delta(c[pos])
       IN IF bc2 = 0 THEN [end |-> pos, depth |-> 0]
          ELSE BraceScan(c, pos + 1, bc2)

\* re.finditer(ok_pattern, function_content): the success expressions
\* between search_start and function_end
OkMatches(c, search_start, function_end) ==
  {j \in (search_start + 1)..(function_end - 1) : c[j].t = "ok"}

\* what the loop body did for one match: the buffer before and after, the
\* line it printed, whether an end offset was used to slice the buffer and the
\* brace count at that offset, and the insertions made (offsets of `before`)
Event(m, before, after, out, sliced, depth, edits) ==
  [m |-> m, before |-> before, after |-> after, out |-> out,
   sliced |-> sliced, depth |-> depth, edits |-> edits, splices |-> <<>>]

\* the event e, with the splices of the buffer in the order the loop body
\* executes them, each at its offset in the buffer the body started from
Spliced(e, splices) == [e EXCEPT !.splices = splices]

Edit(at, toks) == [at |-> at, toks |-> toks]

\* ok_matches[0]: the first success expression instead of the last
FirstMatch(ok_matches) == CHOOSE x \in ok_matches : \A y \in ok_matches : x <= y

\* an offset past the last success expression instead of before it
AfterLastMatch(ok_matches) == Max(ok_matches) + 1

\* ok_matches[-1]
LastMatch(ok_matches) == Max(ok_matches)

\* a fallback that puts the completion pair before the body's closing brace
FallBackToClosingBrace(c, function_end) == Insert(c, function_end - 1, <<End>>)

\* the else branch of "if ok_matches": a warning is printed, nothing inserted
WithoutOk(c, function_end) == c

Msg(name, out) == [name |-> name, msg |-> out]

RECURSIVE Msgs(_, _)
\* the lines printed for the matches of one function, in order
Msgs(name, ev) ==
  IF ev = <<>> THEN <<>> ELSE <<Msg(name, ev[1].out)>> \o Msgs(name, Tail(ev))

----------------------------------------------------------------------------
(* add_basic_telemetry_all_tools.py *)

CheckAreaLen == 200

\* the body of the for loop, for the signature at lexeme m; the match ends
\* after the whitespace-only lines that follow the signature line
BasicMatch(c, m, func_name) ==
  IF HasSpanMarker(c, MatchEnd(c, m), CheckAreaLen)
  THEN Event(m, c, c, "skipped", FALSE, 0, {})
  ELSE LET telemetry_code == <<Span(func_name)>>
           match_end == MatchEnd(c, m)
           c1 == Insert(c, match_end, telemetry_code)
           search_start == match_end + Len(telemetry_code)
           scan == BraceScan(c1, search_start + 1, 1)
           function_end == scan.end
           start == Edit(match_end, telemetry_code)
       IN IF function_end = -1
          THEN Spliced(Event(m, c, c1, "no_end", FALSE, scan.depth, {start}),
                       <<start>>)
          ELSE LET ok_matches == OkMatches(c1, search_start, function_end)
               IN IF ok_matches # {}
                  THEN LET ok_pos == LastMatch(ok_matches) - 1
                           telemetry_end == <<End>>
                           end == Edit(ok_pos - Len(telemetry_code), telemetry_end)
                       IN Spliced(Event(m, c, InsertLine(c1, ok_pos, telemetry_end),
                                        "added", TRUE, scan.depth, {start, end}),
                                  <<start, end>>)
                  ELSE Spliced(Event(m, c, WithoutOk(c1, function_end), "no_ok",
                                     TRUE, scan.depth, {start}),
                               <<start>>)

RECURSIVE BasicLoop(_, _, _, _)
\* for match in reversed(matches)
BasicLoop(c, ms, func_name, ev) ==
  IF ms = {} THEN [content |-> c, events |-> ev]
  ELSE LET m == Max(ms)
           e == BasicMatch(c, m, func_name)
       IN BasicLoop(e.after, ms \ {m}, func_name, Append(ev, e))

add_basic_telemetry(c, func_name) ==
  LET matches == Matches(c, func_name)
  IN IF matches = {}
     THEN [content |-> c, events |-> <<>>, msgs |-> <<Msg(func_name, "not_found")>>]
     ELSE LET r == BasicLoop(c, matches, func_name, <<>>)
          IN [content |-> r.content, events |-> r.events,
              msgs |-> Msgs(func_name, r.events)]

----------------------------------------------------------------------------
(* add_telemetry_all_functions.py *)

CheckBeforeLen == 100

\* telemetry_code: the span-creation statement and the attribute statements
\* chosen by the function's name (both modelled names have attributes)
ComprehensiveCode(func_name) == <<Span(func_name), Attr(func_name)>>

\* the body of the for loop, for the signature at lexeme m; the match ends
\* after the whitespace-only lines that follow the signature line
ComprehensiveMatch(c, m, func_name) ==
  IF HasSpanMarker(c, MatchEnd(c, m), CheckAreaLen)
  THEN Event(m, c, c, "skipped", FALSE, 0, {})
  ELSE LET telemetry_code == ComprehensiveCode(func_name)
           match_end == MatchEnd(c, m)
           c1 == Insert(c, match_end, telemetry_code)
           search_start == match_end + Len(telemetry_code)
           scan == BraceScan(c1, search_start + 1, 1)
           function_end == scan.end
           start == Edit(match_end, telemetry_code)
       IN IF function_end = -1
          THEN Event(m, c, c1, "no_end", FALSE, scan.depth, {start})
          ELSE LET ok_matches == OkMatches(c1, search_start, function_end)
               IN IF ok_matches # {}
                  THEN LET ok_pos == LastMatch(ok_matches) - 1
                           telemetry_end == <<End>>
                       IN IF ~HasEndMarkerBefore(c1, ok_pos, CheckBeforeLen)
                          THEN Event(m, c, InsertLine(c1, ok_pos, telemetry_end),
                                     "added", TRUE, scan.depth,
                                     {start, Edit(ok_pos - Len(telemetry_code),
                                                  telemetry_end)})
                          ELSE Event(m, c, c1, "skipped_end", TRUE, scan.depth,
                                     {start})
                  ELSE Event(m, c, WithoutOk(c1, function_end), "no_ok",
                             TRUE, scan.depth, {start})

RECURSIVE ComprehensiveLoop(_, _, _, _)
\* for match in reversed(matches)
ComprehensiveLoop(c, ms, func_name, ev) ==
  IF ms = {} THEN [content |-> c, events |-> ev]
  ELSE LET m == Max(ms)
           e == ComprehensiveMatch(c, m, func_name)
       IN ComprehensiveLoop(e.after, ms \ {m}, func_name, Append(ev, e))

add_comprehensive_telemetry(c, func_name) ==
  LET matches == Matches(c, func_name)
  IN IF matches = {}
     THEN [content |-> c, events |-> <<>>, msgs |-> <<Msg(func_name, "not_found")>>]
     ELSE LET r == ComprehensiveLoop(c, matches, func_name, <<>>)
          IN [content |-> r.content, events |-> r.events,
              msgs |-> Msgs(func_name, r.events)]

----------------------------------------------------------------------------
(* add_all_telemetry.py: the buffer is a list of lines *)

CheckAheadLines == 5

\* any('StepSpan::new' in lines[j] for j in range(brace_line, check_ahead))
HasTelemetryAhead(lines, brace_line) ==
  \E j \in (brace_line + 1)..Len(lines) :
     /\ lines[j].t = "span"
     /\ Lines(lines[brace_line]) + LineCount(lines, brace_line + 1, j - 1)
          < CheckAheadLines

RECURSIVE LinesScan(_, _, _)
\* the inner while loop: counts braces line by line from j and inserts the
\* completion statements before every line that holds the success text
LinesScan(lines, j, brace_count) ==
  IF j > Len(lines) \/ brace_count <= 0 THEN [lines |-> lines, j |-> j]
  ELSE LET bc2 == brace_count + Delta(lines[j])
       IN IF lines[j].t \in {"ok", "okn"}
          THEN LET telemetry_end == <<End>>
               IN LinesScan(Insert(lines, j - 1, telemetry_end),
                            j + Len(telemetry_end) + 1, bc2)
          ELSE LinesScan(lines, j + 1, bc2)

RECURSIVE LinesLoop(_, _, _, _)
\* the outer while loop over the lines, from line i
LinesLoop(lines, i, func_name, ev) ==
  IF i > Len(lines) THEN [content |-> lines, events |-> ev]
  ELSE IF i \in AnySignature(lines, func_name)
       THEN LET brace_line == i
            IN IF HasTelemetryAhead(lines, brace_line)
               THEN LinesLoop(lines, i + 1, func_name,
                              Append(ev, Event(i, lines, lines, "skipped", FALSE, 0, {})))
               ELSE LET telemetry_lines == <<Cmt, Span(func_name)>>
                        l1 == Insert(lines, brace_line, telemetry_lines)
                        r == LinesScan(l1, brace_line + Len(telemetry_lines) + 1, 1)
                    IN LinesLoop(r.lines, r.j, func_name,
                                 Append(ev, Event(i, lines, r.lines, "added", FALSE, 0, {})))
       ELSE LinesLoop(lines, i + 1, func_name, ev)

\* prints nothing for a function that has no signature line
add_telemetry_to_lines(lines, func_name) ==
  LET r == LinesLoop(lines, 1, func_name, <<>>)
  IN [content |-> r.content, events |-> r.events,
      msgs |-> Msgs(func_name, r.events)]

----------------------------------------------------------------------------
(* add_telemetry.py *)

FirstCharsLen == 500

RECURSIVE CloseScan(_, _, _)
\* the while loop of add_telemetry_to_function: runs to the closing brace or
\* to the end of the buffer; func_end = i - 1 in both cases
CloseScan(c, i, brace_count) ==
  IF i > Len(c) THEN [end |-> Len(c) + 1, depth |-> brace_count]
  ELSE LET bc2 == brace_count + Delta(c[i])
       IN IF bc2 = 0 THEN [end |-> i, depth |-> 0]
          ELSE CloseScan(c, i + 1, bc2)

\* re.finditer(r'(\n\s*)(Ok\(|Err\()', func_body[::-1]): the pattern is run
\* on the reversed text, where a success expression reads ")...(kO"; no
\* lexeme of the buffer holds the text "(kO" or "(rrE" before a line end
ReturnMatches(c, func_start, func_end) ==
  {j \in (func_start + 1)..(func_end - 1) : c[j].t = "ko"}

\* the body of the for loop, for the match that ends at lexeme m
TelemetryMatch(c, m, func_name) ==
  LET func_start == m
      scan == CloseScan(c, func_start + 1, 1)
      func_end == scan.end
  IN IF HasSpanMarker(SubSeq(c, 1, func_end - 1), func_start, FirstCharsLen)
     THEN Event(m, c, c, "skipped", TRUE, scan.depth, {})
     ELSE LET return_matches == ReturnMatches(c, func_start, func_end)
          IN IF return_matches # {}
             THEN LET last_return_pos == Max(return_matches)
                      new_func_body ==
                        <<Cmt, Span(func_name)>>
                        \o SubSeq(c, func_start + 1, last_return_pos)
                        \o <<End>>
                        \o SubSeq(c, last_return_pos + 1, func_end - 1)
                  IN Event(m, c,
                           SubSeq(c, 1, func_start) \o new_func_body
                             \o SubSeq(c, func_end, Len(c)),
                           "added", TRUE, scan.depth, {})
             ELSE Event(m, c, c, "no_return", TRUE, scan.depth, {})

RECURSIVE TelemetryLoop(_, _, _, _)
\* for match in reversed(matches)
TelemetryLoop(c, ms, func_name, ev) ==
  IF ms = {} THEN [content |-> c, events |-> ev]
  ELSE LET m == Max(ms)
           e == TelemetryMatch(c, m, func_name)
       IN TelemetryLoop(e.after, ms \ {m}, func_name, Append(ev, e))

add_telemetry_to_function(c, func_name) ==
  LET matches == AnySignature(c, func_name)
  IN IF matches = {}
     THEN [content |-> c, events |-> <<>>, msgs |-> <<Msg(func_name, "not_found")>>]
     ELSE LET r == TelemetryLoop(c, matches, func_name, <<>>)
          IN [content |-> r.content, events |-> r.events,
              msgs |-> Msgs(func_name, r.events)]

----------------------------------------------------------------------------
(* add_comprehensive_telemetry.py and add_telemetry_remaining_tools.py: the *)
(* attribute emitters                                                       *)

WS == Tok("ws")
Cmt2 == Tok("cmt2")
Cmt3 == Tok("cmt3")
Stmt(k, f) == [t |-> k, n |-> f]

EnhanceAreaLen == 500
RemainingAreaLen == 200
\* len("span.set_attribute")
AttrMarkerLen == 18

\* offset of "span.set_attribute" inside a lexeme, -1 if it has none
AttrMarkerOff(tok) ==
  CASE tok.t \in {"clone", "tostr", "debug", "unwrap"} -> 8
    [] tok.t = "iflet" ->
         CASE tok.n = "steps" -> 54
           [] tok.n = "timeout_ms" -> 61
           [] tok.n = "retries" -> 58
           [] tok.n = "duration_ms" -> 63
           [] tok.n = "wait_for" -> 64
           [] OTHER -> 61
    [] tok.t = "attr" -> 45
    [] tok.t = "track" -> 102
    [] OTHER -> -1

\* the blank lines a lexeme starts with, which a trailing \s*\n consumes
LeadingBlank(tok) ==
  CASE tok.t \in {"end", "cmt2", "attr"} -> 1
    [] tok.t = "cmt3" -> 2
    [] OTHER -> 0

\* "span.set_attribute" in the w characters that start `lead` characters
\* before the lexeme after b
HasAttrMarker(c, b, w, lead) ==
  \E j \in (b + 1)..Len(c) :
     /\ AttrMarkerOff(c[j]) >= 0
     /\ lead + Chars(c, b + 1, j - 1) + AttrMarkerOff(c[j]) + AttrMarkerLen <= w

\* the attribute list of a tool; both tables give the modelled names the
\* same lists
ToolsToEnhance(func_name) ==
  CASE func_name \in {"zoom_in", "zoom_out"} ->
         <<"selector", "steps", "timeout_ms", "retries">>
    [] func_name = "delay" -> <<"duration_ms">>
    [] OTHER -> <<>>

\* a rendering that looks at the function the statement is emitted for
RenderByFunction(s, func_name, attr) ==
  CASE attr = "selector" ->
         IF func_name = "zoom_out" THEN <<Stmt("tostr", attr)>>
         ELSE <<Stmt("clone", attr)>>
    [] attr \in {"steps", "timeout_ms", "retries"} -> <<Stmt("iflet", attr)>>
    [] attr = "duration_ms" ->
         IF s = "enhance" THEN <<Stmt("iflet", attr)>> ELSE <<Stmt("tostr", attr)>>
    [] OTHER -> <<>>

\* one branch of the if / elif chain: the statement text of an attribute;
\* an attribute no branch names adds nothing
Render(s, func_name, attr) ==
  CASE attr = "selector" -> <<Stmt("clone", attr)>>
    [] attr \in {"steps", "timeout_ms", "retries"} -> <<Stmt("iflet", attr)>>
    [] attr = "duration_ms" ->
         IF s = "enhance" THEN <<Stmt("iflet", attr)>> ELSE <<Stmt("tostr", attr)>>
    [] OTHER -> <<>>

RECURSIVE RenderAllReversed(_, _, _)
\* a loop that puts each statement in front of the ones emitted so far
RenderAllReversed(s, func_name, attributes) ==
  IF attributes = <<>> THEN <<>>
  ELSE RenderAllReversed(s, func_name, Tail(attributes))
         \o Render(s, func_name, Head(attributes))

RECURSIVE RenderAll(_, _, _)
\* for attr in attributes: telemetry_code += ...
RenderAll(s, func_name, attributes) ==
  IF attributes = <<>> THEN <<>>
  ELSE Render(s, func_name, Head(attributes))
         \o RenderAll(s, func_name, Tail(attributes))

\* list(re.finditer(pattern, content)) of add_comprehensive_telemetry.py: the
\* span-creation statements of func_name that follow a signature of
\* func_name with only white space between
EnhanceMatches(c, func_name) ==
  {i \in 2..Len(c) :
     /\ c[i] = Span(func_name)
     /\ \E j \in 1..(i - 1) :
          /\ c[j] = Sig(func_name)
          /\ \A k \in (j + 1)..(i - 1) : c[k] = WS}

\* list(re.finditer(pattern, content)) of add_telemetry_remaining_tools.py:
\* every span-creation statement of func_name
RemainingMatches(c, func_name) == {i \in 1..Len(c) : c[i] = Span(func_name)}

\* the body of the for loop of enhance_tool_telemetry, for the span at i: the
\* statement is replaced by a line break, the statement, the comment and the
\* attribute statements
EnhanceMatch(c, i, func_name, attributes) ==
  IF HasAttrMarker(c, i, EnhanceAreaLen, 1)
  THEN Event(i, c, c, "skipped", FALSE, 0, {})
  ELSE LET telemetry_code == <<WS, Span(func_name), Cmt2>>
                               \o RenderAll("enhance", func_name, attributes)
       IN Event(i, c, SubSeq(c, 1, i - 1) \o telemetry_code
                         \o SubSeq(c, i + 1, Len(c)),
                "enhanced", FALSE, 0, {Edit(i, telemetry_code)})

\* the body of the for loop of add_comprehensive_telemetry, for the span at
\* i: the comment and the attribute statements are inserted at the end of
\* the match; telemetry_code ends without a line break
RemainingMatch(c, i, func_name, attributes) ==
  LET insert_pos == MatchEnd(c, i)
  IN IF HasAttrMarker(c, insert_pos, RemainingAreaLen,
                      IF insert_pos < Len(c)
                      THEN 0 - LeadingBlank(c[insert_pos + 1]) ELSE 0)
     THEN Event(i, c, c, "skipped", FALSE, 0, {})
     ELSE LET telemetry_code ==
                <<Cmt3>> \o RenderAll("remaining", func_name, attributes)
                  \o <<Join>>
          IN Event(i, c, Insert(c, insert_pos, telemetry_code), "enhanced",
                   FALSE, 0, {Edit(insert_pos, telemetry_code)})

RECURSIVE EmitterLoop(_, _, _, _, _)
\* for match in reversed(matches)
EmitterLoop(s, c, ms, func_name, ev) ==
  IF ms = {} THEN [content |-> c, events |-> ev]
  ELSE LET m == Max(ms)
           e == IF s = "enhance"
                THEN EnhanceMatch(c, m, func_name, ToolsToEnhance(func_name))
                ELSE RemainingMatch(c, m, func_name, ToolsToEnhance(func_name))
       IN EmitterLoop(s, e.after, ms \ {m}, func_name, Append(ev, e))

enhance_tool_telemetry(s, c, func_name) ==
  LET matches == IF s = "enhance" THEN EnhanceMatches(c, func_name)
                 ELSE RemainingMatches(c, func_name)
  IN IF matches = {}
     THEN [content |-> c, events |-> <<>>, msgs |-> <<Msg(func_name, "not_found")>>]
     ELSE LET r == EmitterLoop(s, c, matches, func_name, <<>>)
          IN [content |-> r.content, events |-> r.events,
              msgs |-> Msgs(func_name, r.events)]

----------------------------------------------------------------------------
(* final_cleanup_telemetry.py: corrections of emitted attribute statements *)

Range(q) == {q[i] : i \in 1..Len(q)}

\* re.sub(pattern, repl, content) for a pattern that is the text of the
\* statement of lexeme a: every occurrence becomes b
Replace(c, a, b) == [i \in 1..Len(c) |-> IF c[i] = a THEN b ELSE c[i]]

RECURSIVE DropTrailingWS(_)
DropTrailingWS(acc) ==
  IF acc # <<>> /\ acc[Len(acc)] = WS
  THEN DropTrailingWS(SubSeq(acc, 1, Len(acc) - 1))
  ELSE acc

RECURSIVE RemoveWithSpace(_, _, _)
\* re.sub(r'\s+<statement>', '', content): every occurrence of the statement
\* goes, together with the white space before it, which takes the
\* white-space-only lines before it along; acc is the text already passed
RemoveWithSpace(c, tok, acc) ==
  IF c = <<>> THEN acc
  ELSE IF Head(c) = tok
       THEN RemoveWithSpace(Tail(c), tok, DropTrailingWS(acc))
       ELSE RemoveWithSpace(Tail(c), tok, Append(acc, Head(c)))

RECURSIVE RemoveEach(_, _)
\* the re.sub calls of a function, one per wrong statement, in order
RemoveEach(c, wrong) ==
  IF wrong = <<>> THEN c
  ELSE RemoveEach(RemoveWithSpace(c, Head(wrong), <<>>), Tail(wrong))

\* remove_zoom_attrs / fix_set_zoom: re.search finds the first signature of
\* func_name, the first span-creation statement of func_name after it
\* (group 1 ends there) and the text up to the next signature line (group 2);
\* the wrong statements of group 2 go and the right one is put in front of it
\* unless group 2 holds a statement with its key
RegionFix(c, func_name, wrong, right) ==
  LET sigs == {i \in 1..Len(c) : IsSig(c[i]) /\ c[i].n = func_name}
  IN IF sigs = {} THEN c
     ELSE LET spans == {j \in (Min(sigs) + 1)..Len(c) : c[j] = Span(func_name)}
          IN IF spans = {} THEN c
             ELSE LET j == Min(spans)
                      nexts == {k \in (j + 1)..Len(c) : IsSig(c[k])}
                      k == IF nexts = {} THEN Len(c) + 1 ELSE Min(nexts)
                      cleaned == RemoveEach(SubSeq(c, j + 1, k - 1), wrong)
                      func_content ==
                        IF \E x \in Range(cleaned) :
                             x.t \in StmtKinds /\ x.n = right.n
                        THEN cleaned
                        ELSE <<Cmt2, right>> \o cleaned
                  IN SubSeq(c, 1, j) \o func_content \o SubSeq(c, k, Len(c))

\* the statements of the module body, in order
CleanupSteps == <<"toggled", "selected", "zoom_in", "zoom_out", "set_zoom">>

\* the statements of the module body after the first one
CleanupRest(c, step) ==
  CASE step = "selected" ->
         Replace(c, Stmt("tostr", "selected"), Stmt("tostr", "state"))
    [] step \in {"zoom_in", "zoom_out"} ->
         RegionFix(c, step,
                   <<Stmt("clone", "selector"), Stmt("iflet", "steps"),
                     Stmt("iflet", "retries")>>,
                   Stmt("tostr", "level"))
    [] step = "set_zoom" ->
         RegionFix(c, step,
                   <<Stmt("clone", "selector"), Stmt("tostr", "zoom_level"),
                     Stmt("iflet", "timeout_ms"), Stmt("iflet", "retries")>>,
                   Stmt("tostr", "percentage"))

\* a toggled rule whose pattern also matches the statement of delay_ms
CleanupStepWide(c, step) ==
  IF step = "toggled"
  THEN Replace(Replace(c, Stmt("tostr", "toggled"), Stmt("tostr", "state")),
               Stmt("tostr", "delay_ms"), Stmt("tostr", "state"))
  ELSE CleanupRest(c, step)

CleanupStep(c, step) ==
  IF step = "toggled"
  THEN Replace(c, Stmt("tostr", "toggled"), Stmt("tostr", "state"))
  ELSE CleanupRest(c, step)

----------------------------------------------------------------------------
(* fix_telemetry_fields.py *)

\* the re.sub calls of the module body, in order
FieldsSteps ==
  <<"duration_ms", "from_selector", "to_selector", "color", "state",
    "wait_for", "timeout_ms", "use_protocol", "browser_pid",
    "browser_window_name", "browser_url_pattern">>

FieldsStep(c, step) ==
  CASE step = "duration_ms" ->
         Replace(c, Stmt("tostr", "duration_ms"), Stmt("tostr", "delay_ms"))
    [] step = "from_selector" ->
         Replace(c, Stmt("clone", "from_selector"), Stmt("clone", "selector"))
    [] step = "to_selector" ->
         Replace(c, Stmt("clone", "to_selector"), Tok("note"))
    [] step = "color" ->
         Replace(c, Stmt("iflet", "color"), Stmt("iflet", "color08"))
    \* the pattern holds \{:?\}, an optional colon between the braces, so it
    \* does not match the "{:?}" of the emitted statement: nothing is replaced
    [] step = "state" -> c
    [] step = "use_protocol" ->
         RemoveWithSpace(c, Stmt("unwrap", "use_protocol"), <<>>)
    [] OTHER -> RemoveWithSpace(c, Stmt("iflet", step), <<>>)

----------------------------------------------------------------------------
(* final_telemetry_fixes.py: one pass over the lines of the file *)

LookBackLines == 20

\* the index of the first line of lexeme q (lines are counted from 0)
LineOf(c, q) == LineCount(c, 1, q - 1)

\* for j in range(max(0, i-20), i): if 'async fn' in lines[j]: ...; break
\* the first signature line of the window before the line of lexeme q, 0 if
\* the window has none
FuncContext(c, q) ==
  LET window == {p \in 1..(q - 1) :
                   IsSig(c[p]) /\ LineOf(c, p) >= LineOf(c, q) - LookBackLines}
  IN IF window = {} THEN 0 ELSE Min(window)

\* whether the loop appends the line(s) of lexeme q to fixed_lines
FixesKeeps(c, q) ==
  CASE c[q] = Stmt("tostr", "delay_ms") ->
         LET p == FuncContext(c, q)
         IN p # 0 /\ c[p].n = "delay"
    [] c[q].t \in StmtKinds /\ c[q].n = "state" -> FALSE
    [] c[q] \in {Stmt("iflet", "app_path"), Stmt("iflet", "arguments")} -> FALSE
    [] c[q].t \in StmtKinds /\ c[q].n = "wait_for_window" -> FALSE
    [] c[q] = Stmt("clone", "option_name") ->
         \E p \in 1..(q - 1) :
            /\ IsSig(c[p]) /\ c[p].n = "select_option"
            /\ LineOf(c, p) >= LineOf(c, q) - LookBackLines
    [] OTHER -> TRUE

RECURSIVE FixesLoop(_, _, _)
\* while i < len(lines)
FixesLoop(c, q, fixed_lines) ==
  IF q > Len(c) THEN fixed_lines
  ELSE FixesLoop(c, q + 1,
                 IF FixesKeeps(c, q) THEN Append(fixed_lines, c[q])
                 ELSE fixed_lines)

FixesSteps == <<"lines">>

----------------------------------------------------------------------------
(* batch_add_telemetry.py *)

\* the slice content[search_start:search_start+20000] searched for success
\* expressions
BatchWindow == 20000
\* offset of "Ok(CallToolResult::success(" in its line, and its length
OkMarkerOff == 8
OkMarkerLen == 27

\* re.finditer(ok_pattern, content[search_start:search_start+20000]), with
\* search_start the line break that ends the span statement at lexeme s: the
\* lines that begin with the success text, whatever its argument and
\* whatever function they lie in, that fit in the slice (the pattern starts
\* with a line break, so the text must begin its line)
BatchOkMatches(c, s) ==
  {j \in (s + 1)..Len(c) :
     /\ c[j].t \in {"ok", "okn"}
     /\ c[j - 1] # Join
     /\ 1 + Chars(c, s + 1, j - 1) + OkMarkerOff + OkMarkerLen <= BatchWindow}

\* last_ok.start(): the pattern starts at the line break before the
\* whitespace that precedes the success text, so the match begins at the end
\* of the last line before j that is not whitespace only
BatchOkPos(c, s, j) ==
  Max({k \in s..(j - 1) : c[k] # WS \/ (k > 1 /\ c[k - 1] = Join)})

\* the body of the for loop, for the match that ends at the brace of lexeme
\* m: check_area starts at the line break after the brace, one character
\* before the next lexeme; the comment and the span statement go in at that
\* line break, the completion pair at the line break before the last
\* success expression of the slice, followed by an empty line
BatchMatch(c, m, func_name) ==
  IF HasSpanMarker(c, m, CheckAreaLen - 1)
  THEN Event(m, c, c, "skipped", FALSE, 0, {})
  ELSE LET telemetry_start == <<Cmt, Span(func_name)>>
           c1 == Insert(c, m, telemetry_start)
           search_start == m + Len(telemetry_start)
           ok_matches == BatchOkMatches(c1, search_start)
           start == Edit(m, telemetry_start)
       IN IF ok_matches # {}
          THEN LET ok_pos == BatchOkPos(c1, search_start, Max(ok_matches))
                   telemetry_end == <<End>>
                   end == Edit(ok_pos - Len(telemetry_start), telemetry_end)
               IN Spliced(Event(m, c, Insert(c1, ok_pos, telemetry_end),
                                "added", FALSE, 0, {start, end}),
                          <<start, end>>)
          ELSE Spliced(Event(m, c, c1, "no_ok", FALSE, 0, {start}), <<start>>)

RECURSIVE BatchLoop(_, _, _, _)
\* for match in reversed(matches)
BatchLoop(c, ms, func_name, ev) ==
  IF ms = {} THEN [content |-> c, events |-> ev]
  ELSE LET m == Max(ms)
           e == BatchMatch(c, m, func_name)
       IN BatchLoop(e.after, ms \ {m}, func_name, Append(ev, e))

batch_add_telemetry(c, func_name) ==
  LET matches == Matches(c, func_name)
  IN IF matches = {}
     THEN [content |-> c, events |-> <<>>, msgs |-> <<Msg(func_name, "not_found")>>]
     ELSE LET r == BatchLoop(c, matches, func_name, <<>>)
          IN [content |-> r.content, events |-> r.events,
              msgs |-> Msgs(func_name, r.events)]

----------------------------------------------------------------------------
(* add_operation_timing.py *)

\* the function found by re.search(func_pattern, content), whose signature
\* is lexeme m: the brace loop gives func_end, and func_content is empty
\* when the body never closes; the declaration goes in front of the first
\* call that begins its line, the timing statements after the brace of the first arm of the
\* function as it then reads (the second pattern is tried only when the
\* first matches nowhere); whether the body declares a span is not looked at
TimingMatch(c, m, func_name) ==
  LET func_end == BraceScan(c, m + 1, 1).end
      func_content == IF func_end = -1 THEN {} ELSE (m + 1)..(func_end - 1)
      named == {j \in func_content : c[j].t = "fae"}
      calls == {j \in named : c[j - 1] # Join}
  IN IF named = {}
     THEN Event(m, c, c, "no_call", FALSE, 0, {})
     ELSE IF \E j \in func_content : c[j].t \in {"decl", "track"}
     THEN Event(m, c, c, "has_timing", FALSE, 0, {})
     ELSE IF calls = {}
     THEN Event(m, c, c, "no_pattern", FALSE, 0, {})
     ELSE LET insert_pos == Min(calls) - 1
              c1 == Insert(c, insert_pos, <<Decl>>)
              func_content_updated == (m + 1)..func_end
              ok_match == {j \in func_content_updated : c1[j].t = "arm"}
              ok_match2 == {j \in func_content_updated : c1[j].t = "arm2"}
              start == Edit(insert_pos, <<Decl>>)
              track(ok_pos) ==
                Edit(IF ok_pos > insert_pos THEN ok_pos - 1 ELSE ok_pos, <<Track>>)
          IN IF ok_match # {}
             THEN Spliced(Event(m, c, Insert(c1, Min(ok_match), <<Track>>),
                                "added", TRUE, 0, {start, track(Min(ok_match))}),
                          <<start, track(Min(ok_match))>>)
             ELSE IF ok_match2 # {}
             THEN Spliced(Event(m, c, Insert(c1, Min(ok_match2), <<Track>>),
                                "added", TRUE, 0, {start, track(Min(ok_match2))}),
                          <<start, track(Min(ok_match2))>>)
             ELSE Spliced(Event(m, c, c1, "no_branch", TRUE, 0, {start}),
                          <<start>>)

\* func_pattern takes any parameter list; re.search gives the first match
add_operation_timing(c, func_name) ==
  LET func_match == AnySignature(c, func_name)
  IN IF func_match = {}
     THEN [content |-> c, events |-> <<>>, msgs |-> <<Msg(func_name, "not_found")>>]
     ELSE LET e == TimingMatch(c, Min(func_match), func_name)
          IN [content |-> e.after, events |-> <<e>>,
              msgs |-> <<Msg(func_name, e.out)>>]

----------------------------------------------------------------------------
(* fix_more_telemetry_fields.py *)

FixMoreSteps == <<"option_fields", "blank_lines", "operation_start">>

RECURSIVE RemoveDeclarations(_, _)
\* re.sub(r'let operation_start = std::time::Instant::now\(\);\n\s+', '',
\* content), from lexeme i: every declaration that is followed by more text
\* goes, with the whitespace-only lines after it, whether or not a later
\* statement reads the variable
RemoveDeclarations(c, i) ==
  IF i > Len(c) THEN <<>>
  ELSE IF c[i] = Decl /\ i < Len(c)
       THEN RemoveDeclarations(c, MatchEnd(c, i) + 1)
       ELSE <<c[i]>> \o RemoveDeclarations(c, i + 1)

\* one substitution of the script; the option_* statements and runs of
\* three or more line breaks do not occur in the modelled lexemes
FixMoreStep(c, step) ==
  IF step = "operation_start" THEN RemoveDeclarations(c, 1) ELSE c

----------------------------------------------------------------------------
(* bridge_monitor.py: BridgeHealthMonitor.monitor_websocket *)

MAX_CONSECUTIVE_FAILURES == 3
BackoffCap == 30

\* caps on the counters, which the code lets grow without bound
MaxDrops == 6
MaxPings == 4

\* BridgeHealthMonitor.__init__, and monitor_websocket about to connect
MonitorStart ==
  /\ ws_connected = FALSE
  /\ consecutive_failures = 0
  /\ connection_drops = 0
  /\ total_pings = 0
  /\ successful_pings = 0
  /\ error_history = <<>>
  /\ wait_time = 0
  /\ mon_pc = "connect"

\* a recovery that leaves the failure counter as it found it
RecoveryKeepsCount(failures) == failures

\* attempt_recovery: the history and the port are looked at, every exception
\* of the port check is caught, and the counter is reset
attempt_recovery(failures) == 0

\* the counter after "self.consecutive_failures += 1" and the self-healing
\* decision
AfterFailure(failures) ==
  IF failures + 1 >= MAX_CONSECUTIVE_FAILURES
  THEN attempt_recovery(failures + 1)
  ELSE failures + 1

\* wait_time = min(2 ** self.consecutive_failures, 30)
Backoff(failures) ==
  IF 2 ^ failures < BackoffCap THEN 2 ^ failures ELSE BackoffCap

HistoryLen == 10

\* deque(maxlen=10).append(x)
DequeAppend(d, x) ==
  IF Len(d) < HistoryLen THEN Append(d, x) ELSE Append(Tail(d), x)

\* the except branch of monitor_websocket, up to the sleep; e is str(e),
\* kept as the place the exception came from
OnError(e) ==
  /\ connection_drops < MaxDrops
  /\ ws_connected' = FALSE
  /\ connection_drops' = connection_drops + 1
  /\ error_history' = DequeAppend(error_history, e)
  /\ consecutive_failures' = AfterFailure(consecutive_failures)
  /\ wait_time' = Backoff(AfterFailure(consecutive_failures))
  /\ mon_pc' = "sleep"
  /\ UNCHANGED <<total_pings, successful_pings>>

\* websockets.connect succeeds
Connect ==
  /\ mon_pc = "connect"
  /\ ws_connected' = TRUE
  /\ consecutive_failures' = 0
  /\ mon_pc' = "connected"
  /\ UNCHANGED <<connection_drops, total_pings, successful_pings,
                 error_history, wait_time>>
  /\ UNCHANGED scripts

\* websockets.connect raises
ConnectFails ==
  /\ mon_pc = "connect"
  /\ OnError("connect")
  /\ UNCHANGED scripts

\* one round of the ping loop in which a pong arrives in time
Pong ==
  /\ mon_pc = "connected"
  /\ total_pings < MaxPings
  /\ total_pings' = total_pings + 1
  /\ successful_pings' = successful_pings + 1
  /\ UNCHANGED <<ws_connected, consecutive_failures, connection_drops,
                 error_history, wait_time, mon_pc>>
  /\ UNCHANGED scripts

\* one round of the ping loop in which asyncio.wait_for times out
PingTimeout ==
  /\ mon_pc = "connected"
  /\ total_pings < MaxPings
  /\ total_pings' = total_pings + 1
  /\ consecutive_failures' = consecutive_failures + 1
  /\ UNCHANGED <<ws_connected, successful_pings, connection_drops,
                 error_history, wait_time, mon_pc>>
  /\ UNCHANGED scripts

\* websockets.ConnectionClosed inside the ping loop: break, the connection
\* block is left and the outer loop connects again at once
ConnectionClosed ==
  /\ mon_pc = "connected"
  /\ mon_pc' = "connect"
  /\ UNCHANGED <<ws_connected, consecutive_failures, connection_drops,
                 total_pings, successful_pings, error_history, wait_time>>
  /\ UNCHANGED scripts

\* any other exception while connected (the hello message, a send, a
\* message that is not JSON)
ConnectedError ==
  /\ mon_pc = "connected"
  /\ OnError("connected")
  /\ UNCHANGED scripts

\* asyncio.sleep(wait_time) is over
Reconnect ==
  /\ mon_pc = "sleep"
  /\ mon_pc' = "connect"
  /\ UNCHANGED <<ws_connected, consecutive_failures, connection_drops,
                 total_pings, successful_pings, error_history, wait_time>>
  /\ UNCHANGED scripts

----------------------------------------------------------------------------
(* The runs: read the file, process the table, write the file *)

Scripts == {"basic", "comprehensive", "lines", "telemetry"}

\* the per-function routine of each script
Routine(s, c, func_name) ==
  CASE s = "basic" -> add_basic_telemetry(c, func_name)
    [] s = "comprehensive" -> add_comprehensive_telemetry(c, func_name)
    [] s = "lines" -> add_telemetry_to_lines(c, func_name)
    [] s = "telemetry" -> add_telemetry_to_function(c, func_name)
    [] s = "batch" -> batch_add_telemetry(c, func_name)
    [] s = "timing" -> add_operation_timing(c, func_name)
    [] s = "fixmore" ->
         [content |-> FixMoreStep(c, func_name), events |-> <<>>, msgs |-> <<>>]
    [] s \in {"enhance", "remaining"} -> enhance_tool_telemetry(s, c, func_name)
    [] s = "cleanup" ->
         [content |-> CleanupStep(c, func_name), events |-> <<>>, msgs |-> <<>>]
    [] s = "fields" ->
         [content |-> FieldsStep(c, func_name), events |-> <<>>, msgs |-> <<>>]
    [] s = "fixes" ->
         [content |-> FixesLoop(c, 1, <<>>), events |-> <<>>, msgs |-> <<>>]

\* a loop that writes the buffer back after every entry
DiskWrittenEachEntry(f, c) == c

\* what the loop over the table leaves on disk after an entry: nothing is
\* written inside the loop
DiskAfterEntry(f, c) == f

MaxLen == 3

\* lexemes of the input files
InputToks == {Sig("zoom_in"), Sig("delay"), X, LB, RB, OK, Span("delay"), End}

RECURSIVE SeqsUpTo(_, _)
SeqsUpTo(S, n) ==
  IF n = 0 THEN {<<>>}
  ELSE LET shorter == SeqsUpTo(S, n - 1)
       IN shorter \cup {Append(q, x) : q \in {p \in shorter : Len(p) = n - 1},
                                       x \in S}

\* longer input files: the shapes of function the scripts are written for,
\* and files that defeat their text patterns
Scenarios ==
  { <<Sig("delay"), X, OK, RB>>,
    <<Sig("delay"), LB, OK, RB, OK, RB>>,
    <<Sig("delay"), LB, OK, RB, X, OK, RB>>,
    <<Sig("delay"), OK, RB, Sig("delay"), OK, RB>>,
    <<Sig("delay"), X, OK, RB, Sig("delay"), X, OK, RB>>,
    <<Sig("delay"), OK, RB, Sig("zoom_in"), RB>>,
    <<Sig("delay"), X, OK, RB, Sig("zoom_in"), X, OK, RB>>,
    <<Sig("zoom_in"), X, RB, Sig("delay"), X, OK, RB>>,
    <<Sig("delay"), X, X, Span("delay"), End, OK, RB>>,
    <<Sig("delay"), Sig("zoom_in"), RB, OK, RB, Sig("delay"), Span("delay"), OK, RB>> }

InputFiles == SeqsUpTo(InputToks, MaxLen) \cup Scenarios

\* the tables: the modelled names, in either order
Tables == {<<"zoom_in">>, <<"zoom_in", "delay">>, <<"delay", "zoom_in">>}

Init ==
  /\ script \in Scripts
  /\ table \in Tables
  /\ file \in InputFiles
  /\ original = file
  /\ content = <<>>
  /\ prev = <<>>
  /\ pc = "start"
  /\ idx = 1
  /\ report = <<>>
  /\ events = <<>>
  /\ run = 1
  /\ file1 = <<>>
  /\ report1 = <<>>
  /\ reads = 0
  /\ writes = 0
  /\ MonitorStart

\* with open(...) as f: content = f.read()
ReadFile ==
  /\ pc = "start"
  /\ content' = file
  /\ prev' = file
  /\ reads' = reads + 1
  /\ pc' = "loop"
  /\ UNCHANGED monitor
  /\ UNCHANGED <<script, table, file, original, idx, report, events, run,
                 file1, report1, writes>>

\* one iteration of the loop over the table
ProcessEntry ==
  /\ pc = "loop"
  /\ idx <= Len(table)
  /\ LET r == Routine(script, content, table[idx])
     IN /\ content' = r.content
        /\ prev' = content
        /\ events' = r.events
        /\ report' = report \o r.msgs
        /\ file' = DiskAfterEntry(file, r.content)
  /\ idx' = idx + 1
  /\ UNCHANGED monitor
  /\ UNCHANGED <<script, table, original, pc, run, file1, report1, reads, writes>>

\* with open(..., 'w') as f: f.write(content)
WriteFile ==
  /\ pc = "loop"
  /\ idx > Len(table)
  /\ file' = content
  /\ writes' = writes + 1
  /\ pc' = "done"
  /\ UNCHANGED monitor
  /\ UNCHANGED <<script, table, original, content, prev, idx, report, events,
                 run, file1, report1, reads>>

\* the same script is started again on the file it has written
RunAgain ==
  /\ pc = "done"
  /\ run = 1
  /\ run' = 2
  /\ file1' = file
  /\ report1' = report
  /\ original' = file
  /\ content' = <<>>
  /\ prev' = <<>>
  /\ pc' = "start"
  /\ idx' = 1
  /\ report' = <<>>
  /\ events' = <<>>
  /\ reads' = 0
  /\ writes' = 0
  /\ UNCHANGED monitor
  /\ UNCHANGED <<script, table, file>>

Next == ReadFile \/ ProcessEntry \/ WriteFile \/ RunAgain

Spec == Init /\ [][Next]_vars

----------------------------------------------------------------------------
(* The attribute emitters, run on files that hold span-creation statements *)
(* or after add_basic_telemetry_all_tools.py has put them in               *)

MaxEmitLen == 3

EmitScripts == {"enhance", "remaining"}

EmitToks ==
  {Sig("zoom_in"), Sig("delay"), Span("zoom_in"), Span("delay"), X, OK, RB,
   Stmt("clone", "selector")}

EmitScenarios ==
  { <<Sig("zoom_in"), X, OK, RB>>,
    <<Sig("zoom_in"), X, LB, X, RB, OK, RB>>,
    <<Sig("zoom_in"), Span("zoom_in"), X, OK, RB>>,
    <<Sig("zoom_out"), Span("zoom_out"), X, OK, RB>>,
    <<Sig("zoom_in"), Span("zoom_in"), OK, RB, Sig("zoom_out"), Span("zoom_out"), OK, RB>>,
    <<Sig("zoom_out"), Span("zoom_out"), OK, RB, Sig("zoom_in"), Span("zoom_in"), OK, RB>>,
    <<Sig("delay"), Span("delay"), OK, RB, Sig("zoom_in"), Span("zoom_in"), OK, RB>>,
    <<Sig("delay"), Span("delay"), X, X, OK, RB, Sig("zoom_in"), Span("zoom_in"), OK, RB>>,
    <<Sig("zoom_in"), X, Span("zoom_in"), X, OK, RB>>,
    <<Sig("zoom_in"), Cmt, Span("zoom_in"), X, OK, RB>> }

EmitFiles == SeqsUpTo(EmitToks, MaxEmitLen) \cup EmitScenarios

EmitTables ==
  {<<"zoom_in", "delay">>, <<"delay", "zoom_in">>, <<"zoom_in", "zoom_out">>}

InitEmit ==
  /\ script \in EmitScripts \cup {"basic"}
  /\ table \in EmitTables
  /\ file \in EmitFiles
  /\ original = file
  /\ content = <<>>
  /\ prev = <<>>
  /\ pc = "start"
  /\ idx = 1
  /\ report = <<>>
  /\ events = <<>>
  /\ run = 1
  /\ file1 = <<>>
  /\ report1 = <<>>
  /\ reads = 0
  /\ writes = 0
  /\ MonitorStart

\* add_basic_telemetry_all_tools.py has written the file and an attribute
\* emitter is started on it ("Run add_comprehensive_telemetry.py next");
\* `original` stays the file the first script has read
RunEmitter ==
  /\ pc = "done"
  /\ run = 1
  /\ script = "basic"
  /\ script' \in EmitScripts
  /\ run' = 2
  /\ file1' = file
  /\ report1' = report
  /\ content' = <<>>
  /\ prev' = <<>>
  /\ pc' = "start"
  /\ idx' = 1
  /\ report' = <<>>
  /\ events' = <<>>
  /\ reads' = 0
  /\ writes' = 0
  /\ UNCHANGED monitor
  /\ UNCHANGED <<table, file, original>>

NextEmit == ReadFile \/ ProcessEntry \/ WriteFile \/ RunEmitter

SpecEmit == InitEmit /\ [][NextEmit]_vars

----------------------------------------------------------------------------
(* The correction scripts, run on files that hold emitted statements *)

MaxFixLen == 3

FixScripts == {"cleanup", "fields", "fixes"}

\* the statements a correction script executes between read and write
Steps(s) ==
  CASE s = "cleanup" -> CleanupSteps
    [] s = "fields" -> FieldsSteps
    [] s = "fixes" -> FixesSteps
    [] s = "fixmore" -> FixMoreSteps

FixToks ==
  {Sig("set_toggled"), Sig("delay"), Sig("highlight_element"), Sig("zoom_in"),
   Span("zoom_in"), Stmt("tostr", "toggled"), Stmt("tostr", "selected"),
   Stmt("debug", "state"), Stmt("iflet", "timeout_ms"),
   Stmt("tostr", "delay_ms"), Stmt("clone", "selector"), X}

\* functions as the emitters leave them
Emitted(func_name, comment, stmts) ==
  <<Sig(func_name), Span(func_name), comment>> \o stmts \o <<X, OK, RB>>

Shapes ==
  { Emitted("set_toggled", Cmt3,
            <<Stmt("clone", "selector"), Stmt("tostr", "toggled"),
              Stmt("iflet", "timeout_ms"), Stmt("iflet", "retries")>>),
    Emitted("set_selected", Cmt3,
            <<Stmt("clone", "selector"), Stmt("tostr", "selected"),
              Stmt("iflet", "timeout_ms"), Stmt("iflet", "retries")>>),
    Emitted("zoom_in", Cmt2,
            <<Stmt("clone", "selector"), Stmt("iflet", "steps"),
              Stmt("iflet", "timeout_ms"), Stmt("iflet", "retries")>>),
    Emitted("navigate_browser", Cmt2,
            <<Stmt("clone", "url"), Stmt("iflet", "wait_for"),
              Stmt("iflet", "timeout_ms"), Stmt("unwrap", "use_protocol")>>),
    Emitted("wait_for_element", Cmt3,
            <<Stmt("clone", "selector"), Stmt("debug", "state"),
              Stmt("iflet", "timeout_ms"), Stmt("iflet", "retries")>>),
    Emitted("delay", Cmt3, <<Stmt("tostr", "duration_ms")>>),
    Emitted("delay", Cmt3, <<Stmt("tostr", "delay_ms")>>),
    <<Sig("highlight_element"), Span("highlight_element"), Cmt3,
      Stmt("clone", "selector"), Stmt("tostr", "delay_ms"), OK, RB>>,
    <<Sig("highlight_element"), OK, RB>> }

FixFiles ==
  SeqsUpTo(FixToks, MaxFixLen) \cup Shapes \cup {f \o g : f, g \in Shapes}

InitFix ==
  /\ script \in FixScripts
  /\ table = Steps(script)
  /\ file \in FixFiles
  /\ original = file
  /\ content = <<>>
  /\ prev = <<>>
  /\ pc = "start"
  /\ idx = 1
  /\ report = <<>>
  /\ events = <<>>
  /\ run = 1
  /\ file1 = <<>>
  /\ report1 = <<>>
  /\ reads = 0
  /\ writes = 0
  /\ MonitorStart

\* final_telemetry_fixes.py is started on the file another correction
\* script has written; `original` stays the file the first script has read
RunFixes ==
  /\ pc = "done"
  /\ run = 1
  /\ script # "fixes"
  /\ script' = "fixes"
  /\ table' = Steps("fixes")
  /\ run' = 2
  /\ file1' = file
  /\ report1' = report
  /\ content' = <<>>
  /\ prev' = <<>>
  /\ pc' = "start"
  /\ idx' = 1
  /\ report' = <<>>
  /\ events' = <<>>
  /\ reads' = 0
  /\ writes' = 0
  /\ UNCHANGED monitor
  /\ UNCHANGED <<file, original>>

NextFix == ReadFile \/ ProcessEntry \/ WriteFile \/ RunFixes

SpecFix == InitFix /\ [][NextFix]_vars

----------------------------------------------------------------------------
(* The regex-based insertion scripts, run on files that hold signatures     *)
(* with a parenthesised pattern in the parameter list                       *)

MaxSigLen == 3

SigScripts == {"basic", "comprehensive"}

SigToks ==
  {Sig("zoom_in"), Sigp("zoom_in"), Sigp("delay"), Span("zoom_in"), X, OK, RB}

SigScenarios ==
  { <<Sigp("zoom_in"), X, OK, RB>>,
    <<Sigp("zoom_in"), X, OK, RB, Sig("zoom_in"), X, OK, RB>>,
    <<Sig("zoom_in"), X, OK, RB, Sigp("zoom_in"), X, OK, RB>>,
    <<Sigp("delay"), X, OK, RB, Sig("zoom_in"), X, OK, RB>>,
    <<Sig("zoom_in"), Sigp("delay"), X, OK, RB, OK, RB>> }

SigFiles == SeqsUpTo(SigToks, MaxSigLen) \cup SigScenarios

InitSig ==
  /\ script \in SigScripts
  /\ table \in Tables
  /\ file \in SigFiles
  /\ original = file
  /\ content = <<>>
  /\ prev = <<>>
  /\ pc = "start"
  /\ idx = 1
  /\ report = <<>>
  /\ events = <<>>
  /\ run = 1
  /\ file1 = <<>>
  /\ report1 = <<>>
  /\ reads = 0
  /\ writes = 0
  /\ MonitorStart

NextSig == ReadFile \/ ProcessEntry \/ WriteFile

SpecSig == InitSig /\ [][NextSig]_vars

----------------------------------------------------------------------------
(* The bridge monitor on its own: no script is run *)

InitMonitor ==
  /\ script = "basic"
  /\ table = <<>>
  /\ file = <<>>
  /\ original = <<>>
  /\ content = <<>>
  /\ prev = <<>>
  /\ pc = "start"
  /\ idx = 1
  /\ report = <<>>
  /\ events = <<>>
  /\ run = 1
  /\ file1 = <<>>
  /\ report1 = <<>>
  /\ reads = 0
  /\ writes = 0
  /\ MonitorStart

NextMonitor ==
  \/ Connect
  \/ ConnectFails
  \/ Pong
  \/ PingTimeout
  \/ ConnectionClosed
  \/ ConnectedError
  \/ Reconnect

SpecMonitor == InitMonitor /\ [][NextMonitor]_vars

----------------------------------------------------------------------------
(* Runs of the span-inserting scripts, one after the other, on a file of
   well-formed functions that hold no telemetry statement *)

MaxRuns == 2

\* add_all_telemetry.py, add_basic_telemetry_all_tools.py,
\* add_telemetry_all_functions.py, batch_add_telemetry.py and
\* add_comprehensive_telemetry.py
SpanScripts == {"lines", "basic", "comprehensive", "batch", "enhance"}

\* the bodies of the functions of the input files
PipeBodies == {<<OK>>, <<X>>, <<X, Okn>>, <<LB, OK, RB, X, OK>>}

Function(n, body) == <<Sig(n)>> \o body \o <<RB>>

PipeFunctions == {Function(n, b) : n \in Names, b \in PipeBodies}

\* one function, or two functions of different names
PipeFiles ==
  PipeFunctions \cup {p[1] \o p[2] :
                        p \in {q \in PipeFunctions \X PipeFunctions :
                                 q[1][1].n # q[2][1].n}}

\* the state in which the first script S of a sequence is started on one
\* of the files F
InitPipe(S, F) ==
  /\ script \in S
  /\ table \in Tables
  /\ file \in F
  /\ original = file
  /\ content = <<>>
  /\ prev = <<>>
  /\ pc = "start"
  /\ idx = 1
  /\ report = <<>>
  /\ events = <<>>
  /\ run = 1
  /\ file1 = <<>>
  /\ report1 = <<>>
  /\ reads = 0
  /\ writes = 0
  /\ MonitorStart

\* the next script of a sequence starts, with any table, on the file the
\* last one has written
Restart ==
  /\ run < MaxRuns
  /\ run' = run + 1
  /\ table' \in Tables
  /\ original' = file
  /\ content' = <<>>
  /\ prev' = <<>>
  /\ pc' = "start"
  /\ idx' = 1
  /\ report' = <<>>
  /\ events' = <<>>
  /\ reads' = 0
  /\ writes' = 0
  /\ UNCHANGED monitor
  /\ UNCHANGED <<file, file1, report1>>

InitSpans == InitPipe(SpanScripts, PipeFiles)

RunSpanScript ==
  /\ pc = "done"
  /\ script' \in SpanScripts
  /\ Restart

NextSpans == ReadFile \/ ProcessEntry \/ WriteFile \/ RunSpanScript

SpecSpans == InitSpans /\ [][NextSpans]_vars

----------------------------------------------------------------------------
(* Runs of the scripts that insert statements using the span, one after the
   other, on a file of well-formed functions that hold no telemetry
   statement *)

\* add_basic_telemetry_all_tools.py, add_telemetry_all_functions.py,
\* batch_add_telemetry.py, add_operation_timing.py and
\* add_telemetry_remaining_tools.py
UseScripts == {"basic", "comprehensive", "batch", "timing", "remaining"}

\* bodies with and without a call of find_and_execute_with_retry_with_fallback
UseBodies == {<<OK>>, <<X, Okn>>, <<X>>, <<Fae, Arm, OK, RB, RB>>}

UseFunctions == {Function(n, b) : n \in Names, b \in UseBodies}

UseFiles ==
  UseFunctions \cup {p[1] \o p[2] :
                       p \in {q \in UseFunctions \X UseFunctions :
                                q[1][1].n # q[2][1].n}}

InitUses == InitPipe(UseScripts, UseFiles)

RunUseScript ==
  /\ pc = "done"
  /\ script' \in UseScripts
  /\ Restart

NextUses == ReadFile \/ ProcessEntry \/ WriteFile \/ RunUseScript

SpecUses == InitUses /\ [][NextUses]_vars

----------------------------------------------------------------------------
(* add_operation_timing.py, then fix_more_telemetry_fields.py on the file it
   has written *)

\* bodies with a call of find_and_execute_with_retry_with_fallback and an
\* arm of either form, with the call alone, and without the call
TimingBodies ==
  {<<Fae, Arm, OK, RB, RB>>, <<X, Fae, Arm2, OK, RB, RB>>, <<Fae, X>>, <<OK>>}

TimingFunctions == {Function(n, b) : n \in Names, b \in TimingBodies}

TimingFiles ==
  TimingFunctions \cup {p[1] \o p[2] :
                          p \in {q \in TimingFunctions \X TimingFunctions :
                                   q[1][1].n # q[2][1].n}}

InitTiming == InitPipe({"timing"}, TimingFiles)

\* fix_more_telemetry_fields.py starts on the file add_operation_timing.py
\* has written; its substitutions are its table
RunFixMore ==
  /\ pc = "done"
  /\ script = "timing"
  /\ run < MaxRuns
  /\ run' = run + 1
  /\ script' = "fixmore"
  /\ table' = Steps("fixmore")
  /\ original' = file
  /\ content' = <<>>
  /\ prev' = <<>>
  /\ pc' = "start"
  /\ idx' = 1
  /\ report' = <<>>
  /\ events' = <<>>
  /\ reads' = 0
  /\ writes' = 0
  /\ UNCHANGED monitor
  /\ UNCHANGED <<file, file1, report1>>

NextTiming == ReadFile \/ ProcessEntry \/ WriteFile \/ RunFixMore

SpecTiming == InitTiming /\ [][NextTiming]_vars

----------------------------------------------------------------------------
(* Claims *)

InsertionScripts == {"basic", "comprehensive", "lines"}

SecondRunDone == pc = "done" /\ run = 2

\* C1: running an insertion script's whole batch twice leaves the file as one
\* run left it, and the second run reports every function of the table that
\* the file defines as skipped because it already has telemetry
C1_Idempotent ==
  (SecondRunDone /\ script \in InsertionScripts) =>
     /\ file = file1
     /\ \A i \in 1..Len(report) :
          Matches(file1, report[i].name) # {} => report[i].msg = "skipped"

----------------------------------------------------------------------------
(* Vocabulary of the claims *)

RegexScripts == {"basic", "comprehensive"}

RECURSIVE SumDelta(_, _, _)
\* the brace effect of lexemes i..j of c
SumDelta(c, i, j) == IF i > j THEN 0 ELSE Delta(c[i]) + SumDelta(c, i + 1, j)

\* every brace of c closes, and every signature is at nesting depth 0
WellFormed(c) ==
  /\ SumDelta(c, 1, Len(c)) = 0
  /\ \A j \in 1..Len(c) :
       /\ SumDelta(c, 1, j) >= 0
       /\ c[j].t = "sig" => SumDelta(c, 1, j - 1) = 0

\* the closing brace of the body that opens after lexeme m, -1 if none
BodyEnd(c, m) == BraceScan(c, m + 1, 1).end

\* the success expressions of the body that opens after lexeme m
BodyOks(c, m) == {j \in (m + 1)..(BodyEnd(c, m) - 1) : c[j].t = "ok"}

\* the nesting depth at lexeme j of the body that opens after lexeme m
DepthAt(c, m, j) == 1 + SumDelta(c, m + 1, j - 1)

\* the entry processed by the last step, and the lines printed for it
AfterEntry == pc = "loop" /\ idx > 1
LastName == table[idx - 1]
Printed(rep, name) == {rep[i].msg : i \in {k \in 1..Len(rep) : rep[k].name = name}}

\* C2: in the regex-based scripts, a matched function on which neither guard
\* fires and whose body holds two or more success expressions gets the
\* completion pair exactly once, right before the last success expression of
\* its body; the body text before that expression is left as it was
C2_LastOccurrence ==
  script \in RegexScripts =>
    \A i \in 1..Len(events) :
      LET e == events[i]
          oks == BodyOks(e.before, e.m)
          k == Len(e.after) - Len(e.before)
          last == Max(oks)
      IN (BodyEnd(e.before, e.m) # -1 /\ Cardinality(oks) >= 2
            /\ e.out \notin {"skipped", "skipped_end"}) =>
           /\ Count(e.after, "end") = Count(e.before, "end") + 1
           /\ e.after[last + k - 1] = End
           /\ e.after[last + k] = OK
           /\ SubSeq(e.after, e.m + k, last + k - 2)
                = SubSeq(e.before, e.m + 1, last - 1)

C2_Witness ==
  /\ script \in RegexScripts
  /\ \E i \in 1..Len(events) :
       /\ events[i].out = "added"
       /\ Cardinality(BodyOks(events[i].before, events[i].m)) >= 2
       /\ \E j \in BodyOks(events[i].before, events[i].m) :
            events[i].before[j - 1] = LB

\* C3: in the line-based script, an instrumented function whose body holds an
\* early success line inside a conditional block and a final success line at
\* the top of the body gets the completion statements once, right before the
\* final success line
C3_OnlyFinalLine ==
  script = "lines" =>
    \A i \in 1..Len(events) :
      LET e == events[i]
          oks == BodyOks(e.before, e.m)
          k == Len(e.after) - Len(e.before)
          final == Max(oks)
      IN (e.out = "added" /\ BodyEnd(e.before, e.m) # -1 /\ oks # {}
            /\ DepthAt(e.before, e.m, final) = 1
            /\ \E j \in oks : j < final /\ DepthAt(e.before, e.m, j) > 1) =>
           /\ Count(e.after, "end") = Count(e.before, "end") + 1
           /\ e.after[final + k - 1] = End

\* C4: a table entry whose signature is nowhere in the buffer is reported as
\* not found and leaves the buffer as it was; when no entry is found the file
\* written is the input file
C4_NotFoundUntouched ==
  script \in {"basic", "lines", "telemetry"} =>
    /\ (AfterEntry /\ Matches(prev, LastName) = {}) =>
          /\ content = prev
          /\ "not_found" \in Printed(report, LastName)
    /\ (pc = "done" /\ \A i \in 1..Len(table) : Matches(original, table[i]) = {}) =>
          file = original

\* C5: the end offset a script slices the buffer with is an offset where the
\* brace count is back to 0
C5_BraceBalance ==
  script \in {"basic", "telemetry"} =>
    \A i \in 1..Len(events) : events[i].sliced => events[i].depth = 0

RECURSIVE ApplyAll(_, _)
\* all insertions spliced into c at their offsets in c, highest offset first
ApplyAll(c, E) ==
  IF E = {} THEN c
  ELSE LET e == CHOOSE x \in E : \A y \in E : y.at <= x.at
       IN ApplyAll(Insert(c, e.at, e.toks), E \ {e})

\* the insertions of all definitions of func_name, each computed on the
\* buffer as it is before the loop, applied together
Simultaneous(c, func_name) ==
  ApplyAll(c, UNION {BasicMatch(c, m, func_name).edits : m \in Matches(c, func_name)})

\* the n-th element of a set of offsets, in source order
Nth(S, n) == CHOOSE x \in S : Cardinality({y \in S : y < x}) = n - 1

\* C6: with two or more definitions of a name in a buffer whose braces all
\* close and whose signatures are not nested, every definition that has no
\* span marker in its window before the loop has the span-creation statement
\* after its own opening brace after the loop, and the buffer equals the
\* simultaneous application of all insertions at their original offsets
C6_ReverseOrder ==
  (script = "basic" /\ AfterEntry /\ WellFormed(prev)
     /\ Cardinality(Matches(prev, LastName)) >= 2) =>
    /\ \A n \in 1..Cardinality(Matches(prev, LastName)) :
         ~HasSpanMarker(prev, Nth(Matches(prev, LastName), n), CheckAreaLen) =>
            LET at == Nth(Matches(content, LastName), n)
            IN at < Len(content) /\ content[at + 1] = Span(LastName)
    /\ content = Simultaneous(prev, LastName)

\* C7: the file is read once, before the first entry, and written once, after
\* the last entry; until that write the file on disk is the input file
C7_SingleWrite ==
  /\ pc = "start" => (reads = 0 /\ writes = 0 /\ file = original)
  /\ pc = "loop" => (reads = 1 /\ writes = 0 /\ file = original)
  /\ pc = "done" => (reads = 1 /\ writes = 1 /\ idx = Len(table) + 1)

C7_Witness == pc = "loop" /\ idx > Len(table) /\ content # file

RECURSIVE RunTable(_, _, _)
\* the loop over a table: the buffer and the lines printed
RunTable(s, c, tbl) ==
  IF tbl = <<>> THEN [content |-> c, msgs |-> <<>>]
  ELSE LET r == Routine(s, c, Head(tbl))
           rest == RunTable(s, r.content, Tail(tbl))
       IN [content |-> rest.content, msgs |-> r.msgs \o rest.msgs]

Without(tbl, i) == SubSeq(tbl, 1, i - 1) \o SubSeq(tbl, i + 1, Len(tbl))

MsgsOf(rep, name) == SelectSeq(rep, LAMBDA x : x.name = name)

\* C8: in a file whose braces all close and whose signatures are not nested,
\* an entry that is not found, or has no success point, leaves the later
\* entries processed as they are when that entry is not in the table
C8_FailureIsolation ==
  (pc = "done" /\ script \in RegexScripts /\ WellFormed(original)) =>
    \A i \in 1..Len(table) :
      Printed(report, table[i]) \subseteq {"not_found", "no_ok"} =>
        \A j \in (i + 1)..Len(table) :
          MsgsOf(report, table[j])
            = MsgsOf(RunTable(script, original, Without(table, i)).msgs, table[j])

\* C9: a matched function on which the span guard does not fire and whose body
\* holds no success expression gets the span-creation statement (and its
\* attribute statements) at the start of its body and no completion pair, and
\* the line printed for it is the warning, not 'added'
C9_AmbiguousSuccessPoint ==
  script \in RegexScripts =>
    \A i \in 1..Len(events) :
      LET e == events[i]
          name == e.before[e.m].n
      IN (BodyEnd(e.before, e.m) # -1 /\ BodyOks(e.before, e.m) = {}
            /\ e.out # "skipped") =>
           /\ e.after[e.m + 1] = Span(name)
           /\ script = "comprehensive" => e.after[e.m + 2] = Attr(name)
           /\ Count(e.after, "end") = Count(e.before, "end")
           /\ e.out = "no_ok"
           /\ AfterEntry => "no_ok" \in Printed(report, name)

C9_Witness ==
  /\ script \in RegexScripts
  /\ \E i \in 1..Len(events) :
       /\ events[i].out = "no_ok"
       /\ events[i].after # events[i].before

\* C10: a function reported as skipped because a marker was found has the
\* same text after the step as before it
C10_SkippedUnchanged ==
  \A i \in 1..Len(events) :
    events[i].out \in {"skipped", "skipped_end"} => events[i].after = events[i].before

\* the span-creation statement at i follows a signature with only white
\* space between
RightAfterBrace(c, i) ==
  \E j \in 1..(i - 1) :
     c[j].t = "sig" /\ \A k \in (j + 1)..(i - 1) : c[k] = WS

\* where the emitter leaves the span-creation statement it found at m
SpanAfter(e) == IF e.after[e.m] = WS THEN e.m + 1 ELSE e.m

StmtCount(c) == Cardinality({i \in 1..Len(c) : c[i].t \in StmtKinds})

\* what ends the block emitted after the span at p: nothing, or the mark of
\* the line break the block lacks
BlockEnd(c, p) ==
  IF \E k \in (p + 1)..Len(c) :
        c[k] = Join /\ \A q \in (p + 2)..(k - 1) : c[q].t \in StmtKinds
  THEN <<Join>> ELSE <<>>

ScenarioA(c) ==
  /\ Len(c) >= 3
  /\ c[1].t = "sig" /\ c[1].n \in Range(table)
  /\ "selector" \in Range(ToolsToEnhance(c[1].n))
  /\ Count(c, "sig") = 1 /\ Count(c, "ok") = 1
  /\ c[Len(c) - 1] = OK /\ c[Len(c)] = RB
  /\ WellFormed(c)
  /\ Count(c, "span") = 0 /\ Count(c, "end") = 0 /\ StmtCount(c) = 0

\* C12: after add_basic_telemetry_all_tools.py and then an attribute emitter
\* have run over a file that holds one uninstrumented function ending in a
\* single success expression, the file holds one span-creation statement,
\* right after the opening brace, one attribute statement for selector, and
\* one completion pair, right before the success expression
C12_ScenarioACounts ==
  (pc = "done" /\ run = 2 /\ ScenarioA(original)) =>
     /\ Count(file, "span") = 1
     /\ \E i \in 1..Len(file) :
          file[i] = Span(original[1].n) /\ RightAfterBrace(file, i)
     /\ Cardinality({i \in 1..Len(file) :
                       file[i].t \in StmtKinds /\ file[i].n = "selector"}) = 1
     /\ Count(file, "end") = 1
     /\ file[Len(file) - 2] = End
     /\ file[Len(file) - 1] = OK

C12_Witness ==
  /\ pc = "done" /\ run = 2 /\ ScenarioA(original)
  /\ Len(original) > 3

\* the corrections of toggled and of selected, applied to every lexeme
ToState(c) ==
  Replace(Replace(c, Stmt("tostr", "toggled"), Stmt("tostr", "state")),
          Stmt("tostr", "selected"), Stmt("tostr", "state"))

\* the lexemes the zoom_in / zoom_out / set_zoom corrections remove or insert
ZoomKinds ==
  {Stmt("clone", "selector"), Stmt("iflet", "steps"), Stmt("iflet", "retries"),
   Stmt("iflet", "timeout_ms"), Stmt("tostr", "zoom_level"),
   Stmt("tostr", "level"), Stmt("tostr", "percentage"), Cmt2, WS}

NotZoomKind(x) == x \notin ZoomKinds

CleanupDone == pc = "done" /\ script = "cleanup" /\ run = 1

Blocks(c) ==
  {i \in 2..Len(c) : c[i] \in {Cmt2, Cmt3} /\ c[i - 1].t = "span"}

\* the attribute list the block at i was emitted for
BlockAttrs(c, i) == ToolsToEnhance(c[i - 1].n)

\* C14: the statement emitted for an attribute is the same in every block an
\* emitter has written, whatever the function, the place in the buffer and
\* the entries processed before; two blocks emitted for the same attribute
\* list hold the same statements
C14_DeterministicRendering ==
  script \in EmitScripts =>
    \A i, j \in Blocks(content) :
      /\ \A a \in 1..Len(BlockAttrs(content, i)), b \in 1..Len(BlockAttrs(content, j)) :
           BlockAttrs(content, i)[a] = BlockAttrs(content, j)[b]
             => content[i + a] = content[j + b]
      /\ BlockAttrs(content, i) = BlockAttrs(content, j)
           => SubSeq(content, i + 1, i + Len(BlockAttrs(content, i)))
                = SubSeq(content, j + 1, j + Len(BlockAttrs(content, j)))

C14_Witness ==
  /\ script \in EmitScripts
  /\ \E i, j \in Blocks(content) :
       /\ content[i - 1].n = "zoom_in"
       /\ content[j - 1].n = "zoom_out"
       /\ i < j

\* C15: the splices made for one function are applied in strictly descending
\* offset order: of the span-creation statement and the completion pair,
\* the one at the higher offset is spliced in first
C15_DescendingOrder ==
  script = "basic" =>
    \A i \in 1..Len(events) :
      \A k \in 1..(Len(events[i].splices) - 1) :
        events[i].splices[k].at > events[i].splices[k + 1].at

\* C16: in every insertion script the marker check comes first: an entry
\* that is skipped because a marker was found has had no body extracted by
\* brace scanning and no text spliced
C16_GuardRunsFirst ==
  script \in {"telemetry", "comprehensive", "basic"} =>
    \A i \in 1..Len(events) :
      events[i].out \in {"skipped", "skipped_end"} =>
        ~events[i].sliced /\ events[i].edits = {}

\* the return lines of the body that add_telemetry_to_function extracts
\* after lexeme m
ReturnLines(c, m) ==
  {j \in (m + 1)..(CloseScan(c, m + 1, 1).end - 1) : c[j].t = "ok"}

\* C17: add_telemetry_to_function, on a matched function without a span
\* marker in its first 500 body characters and with a return line in its
\* body, puts the span-creation statement at the start of the body and the
\* completion pair right before the last return line
C17_InstrumentsBeforeReturn ==
  script = "telemetry" =>
    \A i \in 1..Len(events) :
      LET e == events[i]
          last == Max(ReturnLines(e.before, e.m))
      IN (e.out # "skipped" /\ ReturnLines(e.before, e.m) # {}) =>
           e.after = SubSeq(e.before, 1, e.m)
                       \o <<Cmt, Span(e.before[e.m].n)>>
                       \o SubSeq(e.before, e.m + 1, last - 1)
                       \o <<End>>
                       \o SubSeq(e.before, last, Len(e.before))

\* the function that encloses lexeme j: the name on the nearest signature
\* line before it ("" when there is none)
Enclosing(c, j) ==
  IF \E k \in 1..(j - 1) : IsSig(c[k])
  THEN c[Max({k \in 1..(j - 1) : IsSig(c[k])})].n
  ELSE ""

\* the statements of toks that c holds outside function func_name, in order
Outside(c, toks, func_name) ==
  SelectSeq([j \in 1..Len(c) |->
               IF c[j] \in toks /\ Enclosing(c, j) # func_name
               THEN c[j] ELSE Tok("none")],
            LAMBDA x : x # Tok("none"))

NavigateStmts ==
  {Stmt("iflet", "wait_for"), Stmt("iflet", "timeout_ms"),
   Stmt("unwrap", "use_protocol")}

StateStmts == {Stmt("debug", "state"), Stmt("tostr", "state")}

\* C18: a correction written for one function leaves the same statements of
\* other functions alone: fix_telemetry_fields.py keeps every wait_for,
\* timeout_ms and use_protocol statement outside navigate_browser, and
\* final_telemetry_fixes.py keeps every state statement outside
\* wait_for_element, those written by final_cleanup_telemetry.py included
C18_CorrectionsConfined ==
  /\ (script = "fields" /\ pc = "done") =>
       Outside(file, NavigateStmts, "navigate_browser")
         = Outside(original, NavigateStmts, "navigate_browser")
  /\ (script = "fixes" /\ pc = "done") =>
       LET start == IF run = 2 THEN file1 ELSE original
       IN Outside(file, StateStmts, "wait_for_element")
            = Outside(start, StateStmts, "wait_for_element")

\* the pipeline case: a state statement that final_cleanup_telemetry.py
\* wrote for set_toggled is gone after final_telemetry_fixes.py
C18_PipelineCase ==
  /\ script = "fixes" /\ pc = "done" /\ run = 2
  /\ \E j \in 1..Len(file1) :
       file1[j] = Stmt("tostr", "state") /\ Enclosing(file1, j) = "set_toggled"
  /\ \A j \in 1..Len(file) : file[j] # Stmt("tostr", "state")

\* the signature line before lexeme q that is nearest to it, 0 if none
NearestContext(c, q) ==
  LET before == {p \in 1..(q - 1) : IsSig(c[p])}
  IN IF before = {} THEN 0 ELSE Max(before)

\* what the delay_ms rule is claimed to leave of c: a delay_ms line stays iff
\* the nearest signature line before it is that of delay; the other rules
\* of the pass act as the code has them
ByNearestContext(c) ==
  SelectSeq([q \in 1..Len(c) |->
               IF c[q] = Stmt("tostr", "delay_ms")
               THEN IF NearestContext(c, q) # 0
                       /\ c[NearestContext(c, q)].n = "delay"
                    THEN c[q] ELSE Tok("none")
               ELSE IF FixesKeeps(c, q) THEN c[q] ELSE Tok("none")],
            LAMBDA x : x # Tok("none"))

\* C19: final_telemetry_fixes.py keeps a delay_ms attribute line if and only
\* if the nearest preceding signature line is that of the delay function,
\* and the rule removes no other line
C19_DelayMsByContext ==
  (script = "fixes" /\ pc = "done") =>
    file = ByNearestContext(IF run = 2 THEN file1 ELSE original)

\* C20: the signature locator of the regex-based scripts does no bracket
\* balancing: a matched definition never has a ")" inside its parameter
\* list, and when the buffer holds no other definition of the entry's name
\* the entry is reported not found and the buffer stays as it was
C20_NoBracketBalancing ==
  script \in SigScripts =>
    /\ \A i \in 1..Len(events) : events[i].before[events[i].m].t = "sig"
    /\ (AfterEntry /\ \A j \in 1..Len(prev) : prev[j] # Sig(LastName)) =>
         /\ content = prev
         /\ Printed(report, LastName) = {"not_found"}

C20_Witness ==
  /\ script \in SigScripts
  /\ AfterEntry
  /\ \E j \in 1..Len(prev) : prev[j] = Sigp(LastName)
  /\ \A j \in 1..Len(prev) : prev[j] # Sig(LastName)
  /\ content = prev
  /\ Printed(report, LastName) = {"not_found"}

\* C21: over consecutive failed connection attempts with no successful
\* connection in between, the wait before the next attempt is
\* min(2^consecutive_failures, 30) and does not decrease from one failed
\* attempt to the next: it grows until it is at the cap
C21_ExponentialBackoff ==
  [][(/\ mon_pc = "connect" /\ mon_pc' = "sleep"
      /\ ~ws_connected
      /\ error_history # <<>>
      /\ error_history[Len(error_history)] = "connect")
       => /\ wait_time' = Backoff(consecutive_failures')
          /\ wait_time' >= wait_time
          /\ wait_time < BackoffCap => wait_time' > wait_time]_vars

\* C22: wherever the monitor sleeps before reconnecting, the failure counter
\* is 0, 1 or 2: a connection error that brings it to the threshold calls
\* attempt_recovery, which returns with the counter at 0, and a successful
\* connection sets it to 0, whatever ping timeouts came while connected
C22_SelfHealingThreshold ==
  /\ [](mon_pc = "sleep" =>
          consecutive_failures \in 0..(MAX_CONSECUTIVE_FAILURES - 1))
  /\ [][((mon_pc' = "sleep" /\ mon_pc # "sleep") =>
            consecutive_failures' =
              (IF consecutive_failures + 1 >= MAX_CONSECUTIVE_FAILURES
               THEN 0 ELSE consecutive_failures + 1))
        /\ ((mon_pc = "connect" /\ mon_pc' = "connected") =>
              consecutive_failures' = 0)]_vars

\* the monitor sleeps after attempt_recovery has run on a counter that ping
\* timeouts had taken past the threshold
C22_Witness ==
  /\ mon_pc = "sleep"
  /\ consecutive_failures = 0
  /\ total_pings - successful_pings >= MAX_CONSECUTIVE_FAILURES
  /\ connection_drops = 1

\* the success expressions, whatever their argument, of the body that opens
\* after lexeme m
BodySuccesses(c, m) ==
  {j \in (m + 1)..(BodyEnd(c, m) - 1) : c[j].t \in {"ok", "okn"}}

\* C23: when batch_add_telemetry.py instruments a function, the completion
\* pair is inserted inside that function's own body, between its opening
\* brace and its matching closing brace, and no completion pair is inserted
\* when the body holds no success expression
C23_CompletionInsideBody ==
  (script = "batch" /\ AfterEntry) =>
    \A i \in 1..Len(events) :
      LET e == events[i]
      IN e.out # "skipped" =>
           /\ \A ed \in e.edits :
                ed.toks = <<End>> =>
                  ed.at >= e.m /\ ed.at < BodyEnd(e.before, e.m)
           /\ BodySuccesses(e.before, e.m) = {} =>
                Count(e.after, "end") = Count(e.before, "end")

\* the body that opens after lexeme m holds a span-creation statement
\* (the body runs to the end of the file when it is not closed)
BodyHasSpan(c, m) ==
  \E j \in (m + 1)..(IF BodyEnd(c, m) = -1 THEN Len(c) ELSE BodyEnd(c, m) - 1) :
     c[j].t = "span"

\* C24: in the regex-based scripts the guard looks only at the function's
\* own body: a matched definition whose own body holds no span-creation
\* statement is not reported as already instrumented and receives the
\* statement right after its opening brace, whatever follows it in the file
\* and whatever the order of the table
C24_GuardOwnBody ==
  (script \in RegexScripts /\ AfterEntry) =>
    \A i \in 1..Len(events) :
      LET e == events[i]
      IN ~BodyHasSpan(e.before, e.m) =>
           /\ e.out # "skipped"
           /\ e.after[e.m + 1] = Span(LastName)

\* the span-creation statements of the body that opens after lexeme m
SpansIn(c, m) == {j \in (m + 1)..(BodyEnd(c, m) - 1) : c[j].t = "span"}

UsesSpan(tok) == tok.t \in {"end", "track", "attr"} \cup StmtKinds

\* lexeme j lies in the body of a function that holds a span-creation
\* statement before it
SpanDeclaredBefore(c, j) ==
  \E m \in 1..(j - 1) :
     /\ IsSig(c[m]) /\ j < BodyEnd(c, m)
     /\ \E k \in (m + 1)..(j - 1) : c[k].t = "span"

\* C26: starting from functions without telemetry, after any sequence of
\* runs of the scripts that insert statements using the span, every such
\* statement of the buffer and of the file lies in a function whose body
\* holds the span-creation statement at an earlier offset
C26_SpanDeclared ==
  \A c \in {file, content} :
    \A j \in 1..Len(c) : UsesSpan(c[j]) => SpanDeclaredBefore(c, j)

\* C27: whenever add_basic_telemetry or add_comprehensive_telemetry
\* instruments a function whose body holds a success expression, of
\* whatever argument, the completion pair is inserted right before the last
\* success expression of the body
C27_EverySuccessCompleted ==
  (script \in RegexScripts /\ AfterEntry) =>
    \A i \in 1..Len(events) :
      LET e == events[i]
      IN (e.out # "skipped" /\ BodySuccesses(e.before, e.m) # {}) =>
           \E ed \in e.edits :
              /\ ed.toks = <<End>>
              /\ ed.at = Max(BodySuccesses(e.before, e.m)) - 1

\* lexeme j lies in the body of a function that declares operation_start
\* before it
TimingDeclaredBefore(c, j) ==
  \E m \in 1..(j - 1) :
     /\ IsSig(c[m]) /\ j < BodyEnd(c, m)
     /\ \E k \in (m + 1)..(j - 1) : c[k] = Decl

\* C28: in the buffer and the file fix_more_telemetry_fields.py produces
\* from what add_operation_timing.py wrote, every statement that reads
\* operation_start is preceded in its function by the declaration of the
\* variable
C28_NoDanglingUse ==
  (script = "fixmore" /\ pc \in {"loop", "done"}) =>
    \A c \in {file, content} :
      \A j \in 1..Len(c) : c[j] = Track => TimingDeclaredBefore(c, j)

====
